---- MODULE Spec2Model ----
(***************************************************************************)
(* PhotonX-OS: the HOCS-RT scheduler core (src/kernel/core/scheduler.c)    *)
(* and the generic-timer driver (src/kernel/time/timer.c).                 *)
(*                                                                         *)
(* Scheduler: the process table, the per-priority ready queues (singly     *)
(* linked through the PCBs' next pointers) and the current-process         *)
(* pointer, with one action per exported function.  PCB pointers are table *)
(* indices; the null pointer is NULL.                                      *)
(*                                                                         *)
(* Timer: the CNTP registers, sys_timer_config and sys_uptime, with one    *)
(* action per driver function and per hardware event.  uint64_t is a word  *)
(* of WordBits bits; NS_PER_SEC and the frequencies are scaled with it.    *)
(***************************************************************************)
EXTENDS Integers, Sequences, FiniteSets, TLC

\* Size of the process table.  The source sets 128; the model keeps the
\* table small enough to fill it.
MAX_PROCESSES == 4

\* Number of priority levels, 0 (high) .. 15 (low).
PRIORITY_LEVELS == 16

\* Quantum given to a new process.
TIME_SLICE_MS == 10

\* The null pointer, and the int -1 create_process returns on failure.
NULL == -1

\* The priorities create_process is called with: the highest level, a middle
\* level, the lowest level, and one value that is out of range.
PriorityInputs == {0, 5, PRIORITY_LEVELS - 1, PRIORITY_LEVELS}

Slots == 0 .. (MAX_PROCESSES - 1)
Levels == 0 .. (PRIORITY_LEVELS - 1)

VARIABLES
    process_table,      \* [Slots -> pcb_t]
    current_process,    \* Slots \cup {NULL}
    ready_queue,        \* [Levels -> Slots \cup {NULL}], the head pointers
    booted,             \* system_init_scheduler has run
    halted,             \* panic() has been entered
    op,                 \* the last call: its kind, priority argument and return value
    returned,           \* the identifiers create_process has returned, in call order
    yielded,            \* the processes that have called yield()
    switch_log,         \* the calls of switch_to(prev, next), in order
    createdAfterSched,  \* a process was created after a context switch took place
    pend                \* the create_process call that has linked its PCB and not yet stored the head

VARIABLES
    hw,                 \* CNTFRQ, CNTPCT, CNTP_CTL's bits, the CNTP_TVAL written and the ticks left
    sys_timer_config,   \* timer_config_t
    sys_uptime,         \* system_uptime_t
    top,                \* the last timer call: its kind, argument and what it did
    tghost,             \* counter advances so far; raw ticks fed to the accumulator
    ucall,              \* a timer_update_uptime call in progress in task context
    conv                \* the last conversion request and its results

VARIABLES
    gic,                \* the GIC's distributor and CPU-interface registers
    gop,                \* the last GIC driver call, its caller and its register accesses
    irq_log,            \* the events of the interrupt dispatch path, in order
    kmain               \* kernel_main: its position, PSTATE.I, the boot steps done

schedVars == <<process_table, current_process, ready_queue, booted, halted,
               op, returned, yielded, switch_log, createdAfterSched, pend>>

timerVars == <<hw, sys_timer_config, sys_uptime, top, tghost, ucall, conv>>

gicVars == <<gic, gop, irq_log, kmain>>

vars == <<schedVars, timerVars, gicVars>>

\* proc_state_t
ProcStates == {"UNUSED", "CREATED", "READY", "RUNNING", "BLOCKED", "ZOMBIE"}

\* A PCB of the zero-initialised static table: state PROC_UNUSED (= 0), every
\* other field 0, the link pointers null.
ZeroPcb == [pid |-> 0, state |-> "UNUSED", priority |-> 0,
            ticks_remaining |-> 0, next |-> NULL]

NoOp == [kind |-> "none", priority |-> NULL, ret |-> NULL]

\* No create_process call is between its two stores to the queue.
NoPend == [pid |-> NULL, priority |-> NULL, by |-> NULL]

(***************************************************************************)
(* Timer driver: words, constants, inputs                                  *)
(***************************************************************************)

\* Width of uint64_t in the model.
WordBits == 8

WORD == 2 ^ WordBits

\* Unsigned arithmetic modulo the word: the value of a uint64_t expression.
u64(x) == ((x % WORD) + WORD) % WORD

\* Nanoseconds per second (10^9 in the source, scaled with the word).
NS_PER_SEC == 10

\* The default frequency, a tenth of NS_PER_SEC as in the source (10^8).
ZYNQMP_REF_CLK_HZ == 1

\* sys_timer_config.min_delta_ticks, 0xF.
MIN_DELTA_TICKS == 15

\* The timer's interrupt line, PPI 30.
TIMER_IRQ == 30

\* The frequencies CNTFRQ_EL0 may report: none, the default, one that does
\* not divide NS_PER_SEC, one tick per nanosecond, two ticks per nanosecond.
FreqInputs == {0, ZYNQMP_REF_CLK_HZ, 3, NS_PER_SEC, 2 * NS_PER_SEC}

\* The counter values at power-on: zero, and just below the wrap.
BootCounts == {0, WORD - 3}

\* The steps by which the counter is seen to advance; the largest makes the
\* product with NS_PER_SEC exceed the word.
AdvanceInputs == {1, 2, (WORD \div NS_PER_SEC) + 1}

\* The number of counter advances in a run.
MaxAdvances == 3

\* The delays timer_set_timeout is called with.
NsInputs == {0, 14 * NS_PER_SEC, 15 * NS_PER_SEC, 16 * NS_PER_SEC, WORD - 1}

\* The zero-initialised globals of timer.c.
ZeroConfig == [frequency_hz |-> 0, min_delta_ticks |-> 0, irq_number |-> 0,
               initialized |-> 0, use_virtual |-> 0]

ZeroUptime == [boot_timestamp |-> 0, last_tick |-> 0, uptime_ns |-> 0,
               uptime_sec |-> 0]

NoTimerOp == [kind |-> "none", arg |-> 0, acted |-> <<>>]

NoCall == [pc |-> "none", current_ticks |-> 0, delta |-> 0, sum |-> 0, fed |-> 0]

NoConv == [kind |-> "none", v |-> 0, out |-> 0, back |-> 0]

(***************************************************************************)
(* The GIC-400 registers and the driver's accesses to them (gic.c).  A     *)
(* 32-bit register is kept as its four bytes, least significant first, and *)
(* the driver's shifts and masks are computed bit by bit.                  *)
(***************************************************************************)

\* The word with bytes b3 b2 b1 b0, b0 the least significant.
Bytes4(b3, b2, b1, b0) == <<b0, b1, b2, b3>>

ZeroWord == Bytes4(0, 0, 0, 0)

\* Bit k of w.
Bit(w, k) == (w[(k \div 8) + 1] \div (2 ^ (k % 8))) % 2

\* Bit k of w << n.
ShlBit(w, n, k) == IF k >= n THEN Bit(w, k - n) ELSE 0

\* The byte of w << n whose lowest bit is bit o.
ShlByte(w, n, o) ==
    ShlBit(w, n, o) + 2 * ShlBit(w, n, o + 1) + 4 * ShlBit(w, n, o + 2)
      + 8 * ShlBit(w, n, o + 3) + 16 * ShlBit(w, n, o + 4)
      + 32 * ShlBit(w, n, o + 5) + 64 * ShlBit(w, n, o + 6)
      + 128 * ShlBit(w, n, o + 7)

\* Bit j of the byte x, and x & y on bytes.
ByteBit(x, j) == (x \div (2 ^ j)) % 2

ByteAnd(x, y) ==
    ByteBit(x, 0) * ByteBit(y, 0) + 2 * ByteBit(x, 1) * ByteBit(y, 1)
      + 4 * ByteBit(x, 2) * ByteBit(y, 2) + 8 * ByteBit(x, 3) * ByteBit(y, 3)
      + 16 * ByteBit(x, 4) * ByteBit(y, 4) + 32 * ByteBit(x, 5) * ByteBit(y, 5)
      + 64 * ByteBit(x, 6) * ByteBit(y, 6) + 128 * ByteBit(x, 7) * ByteBit(y, 7)

\* w << n, w & v, w | v, ~w on 32-bit words.
Shl(w, n) ==
    <<ShlByte(w, n, 0), ShlByte(w, n, 8), ShlByte(w, n, 16), ShlByte(w, n, 24)>>

BitAnd(w, v) ==
    <<ByteAnd(w[1], v[1]), ByteAnd(w[2], v[2]), ByteAnd(w[3], v[3]),
      ByteAnd(w[4], v[4])>>

BitOr(w, v) ==
    <<w[1] + v[1] - ByteAnd(w[1], v[1]), w[2] + v[2] - ByteAnd(w[2], v[2]),
      w[3] + v[3] - ByteAnd(w[3], v[3]), w[4] + v[4] - ByteAnd(w[4], v[4])>>

BitNot(w) == <<255 - w[1], 255 - w[2], 255 - w[3], 255 - w[4]>>

\* The value of byte i of w.
ByteOf(w, i) == w[i + 1]

\* MAX_IRQS, IRQ_SPI_START of gic_v2.h; the spurious identifier.
MAX_IRQS == 1024
IRQ_SPI_START == 32
SPURIOUS_IRQ == 1023

\* GICD_TYPER.ITLinesNumber of the modelled controllers: 32 * (N + 1) lines.
MaxTyper == 1
TyperInputs == 0 .. MaxTyper
GicLines == 32 * (MaxTyper + 1)
EnableRegs == 0 .. (GicLines \div 32 - 1)
ByteRegs == 0 .. (GicLines \div 4 - 1)

\* The number of lines controller g implements.
LinesOf(g) == 32 * ((g.typer % 32) + 1)

\* Line by line views of the packed registers.
LineEnabled(g, id) == Bit(g.enable[id \div 32], id % 32)
LinePriority(g, id) == ByteOf(g.priority[id \div 4], id % 4)
LineTarget(g, id) == ByteOf(g.target[id \div 4], id % 4)
LineGroup(g, id) == Bit(g.group[id \div 32], id % 32)

\* A 32-bit store to register reg, index n.  Set-enable and clear-enable
\* act on the bits written as 1; registers of lines that are not
\* implemented ignore writes; GICD_ITARGETSR0..7 are read-only.
MmioWrite(g, reg, n, w) ==
    CASE reg = "GICD_CTLR" -> [g EXCEPT !.dctlr = Bit(w, 0)]
      [] reg = "GICC_CTLR" -> [g EXCEPT !.cctlr = Bit(w, 0)]
      [] reg = "GICC_PMR" -> [g EXCEPT !.pmr = ByteOf(w, 0)]
      [] reg = "GICC_BPR" -> [g EXCEPT !.bpr = ByteOf(w, 0) % 8]
      [] reg = "GICD_ISENABLER" /\ n \in EnableRegs /\ 32 * n < LinesOf(g) ->
            [g EXCEPT !.enable[n] = BitOr(g.enable[n], w)]
      [] reg = "GICD_ICENABLER" /\ n \in EnableRegs /\ 32 * n < LinesOf(g) ->
            [g EXCEPT !.enable[n] = BitAnd(g.enable[n], BitNot(w))]
      [] reg = "GICD_IGROUPR" /\ n \in EnableRegs /\ 32 * n < LinesOf(g) ->
            [g EXCEPT !.group[n] = w]
      [] reg = "GICD_IPRIORITYR" /\ n \in ByteRegs /\ 4 * n < LinesOf(g) ->
            [g EXCEPT !.priority[n] = w]
      [] reg = "GICD_ITARGETSR" /\ n \in ByteRegs /\ 4 * n < LinesOf(g)
           /\ 4 * n >= IRQ_SPI_START ->
            [g EXCEPT !.target[n] = w]
      [] OTHER -> g

\* A 32-bit load; registers of lines that are not implemented read as zero.
MmioRead(g, reg, n) ==
    CASE reg = "GICD_IPRIORITYR" /\ n \in ByteRegs -> g.priority[n]
      [] reg = "GICD_ITARGETSR" /\ n \in ByteRegs -> g.target[n]
      [] reg = "GICD_ISENABLER" /\ n \in EnableRegs -> g.enable[n]
      [] OTHER -> ZeroWord

\* The controller out of reset: nothing enabled, the banked target
\* registers of lines 0..31 naming this core.
GicReset(t) ==
    [typer |-> t, dctlr |-> 0, cctlr |-> 0, pmr |-> 0, bpr |-> 0,
     enable |-> [n \in EnableRegs |-> ZeroWord],
     group |-> [n \in EnableRegs |-> ZeroWord],
     priority |-> [n \in ByteRegs |-> ZeroWord],
     target |-> [n \in ByteRegs |->
                   IF 4 * n < IRQ_SPI_START THEN Bytes4(1, 1, 1, 1) ELSE ZeroWord]]

\* The controller as an earlier boot stage may leave it: the distributor
\* on, lines 5, 30 and 53 enabled, line 30 at priority 0x20 and in group 1,
\* line 53 routed to CPU1.
GicFirmware(t) ==
    LET g1 == MmioWrite(GicReset(t), "GICD_CTLR", 0, Bytes4(0, 0, 0, 1))
        g2 == MmioWrite(g1, "GICD_ISENABLER", 0, Bytes4(64, 0, 0, 32))
        g3 == MmioWrite(g2, "GICD_ISENABLER", 1, Bytes4(0, 32, 0, 0))
        g4 == MmioWrite(g3, "GICD_IPRIORITYR", 7, Bytes4(0, 32, 0, 0))
        g5 == MmioWrite(g4, "GICD_IGROUPR", 0, Bytes4(64, 0, 0, 0))
    IN  MmioWrite(g5, "GICD_ITARGETSR", 13, Bytes4(0, 0, 2, 0))

\* A mask of the whole register, as gic_dist_init() writes.
BitMaskOf_Register(irq_id) == Bytes4(255, 255, 255, 255)

\* 1 << (irq_id % 32)
BitMaskOf(irq_id) == Shl(Bytes4(0, 0, 0, 1), irq_id % 32)

\* gic_enable_irq(): one store to the set-enable register.
GicEnableIrq(g, irq_id) ==
    MmioWrite(g, "GICD_ISENABLER", irq_id \div 32, BitMaskOf(irq_id))

\* gic_enable_interrupt() of gic_v2.c: the set-enable register is read, the
\* line's bit is set in the value and the value is stored.
GicEnableInterrupt(g, id) ==
    LET val == MmioRead(g, "GICD_ISENABLER", id \div 32)
    IN  MmioWrite(g, "GICD_ISENABLER", id \div 32, BitOr(val, BitMaskOf(id)))

\* gic_disable_irq(): one store to the clear-enable register.
GicDisableIrq(g, irq_id) ==
    MmioWrite(g, "GICD_ICENABLER", irq_id \div 32, BitMaskOf(irq_id))

\* The byte of the other lines is overwritten too: val = priority << shift.
ReplaceByte_Overwrite(val, bit_shift, byte) == Shl(Bytes4(0, 0, 0, byte), bit_shift)

\* val &= ~(0xFF << bit_shift); val |= ((uint32_t)byte << bit_shift);
ReplaceByte(val, bit_shift, byte) ==
    BitOr(BitAnd(val, BitNot(Shl(Bytes4(0, 0, 0, 255), bit_shift))),
          Shl(Bytes4(0, 0, 0, byte), bit_shift))

\* gic_set_priority(): read-modify-write of the line's byte.
GicSetPriority(g, irq_id, priority) ==
    LET reg_offset == irq_id \div 4
        bit_shift == (irq_id % 4) * 8
        val == MmioRead(g, "GICD_IPRIORITYR", reg_offset)
    IN  MmioWrite(g, "GICD_IPRIORITYR", reg_offset,
                  ReplaceByte(val, bit_shift, priority))

\* gic_set_target(): declared in gic_v2.h, no body in the source; the
\* specified read-modify-write of the line's byte of the target register.
GicSetTarget(g, irq_id, cpu_mask) ==
    LET reg_offset == irq_id \div 4
        bit_shift == (irq_id % 4) * 8
        val == MmioRead(g, "GICD_ITARGETSR", reg_offset)
    IN  MmioWrite(g, "GICD_ITARGETSR", reg_offset,
                  ReplaceByte(val, bit_shift, cpu_mask))

\* The register accesses of each driver call, in order.
EnableAccesses(irq_id) == << <<"W", "GICD_ISENABLER", irq_id \div 32>> >>
EnableInterruptAccesses(id) ==
    << <<"R", "GICD_ISENABLER", id \div 32>>,
       <<"W", "GICD_ISENABLER", id \div 32>> >>
DisableAccesses(irq_id) == << <<"W", "GICD_ICENABLER", irq_id \div 32>> >>
PriorityAccesses(irq_id) ==
    << <<"R", "GICD_IPRIORITYR", irq_id \div 4>>,
       <<"W", "GICD_IPRIORITYR", irq_id \div 4>> >>
TargetAccesses(irq_id) ==
    << <<"R", "GICD_ITARGETSR", irq_id \div 4>>,
       <<"W", "GICD_ITARGETSR", irq_id \div 4>> >>

NoGicOp == [kind |-> "none", id |-> 0, arg |-> 0, caller |-> "none",
            acc |-> <<>>, calls |-> 0]

NoBoot == [pc |-> "entry", irqs_unmasked |-> FALSE, done |-> <<>>]

\* The driver's and kernel_main's state before any function has run, on
\* controller g.
GicGlobals(g) ==
    /\ gic = g
    /\ gop = NoGicOp
    /\ irq_log = <<>>
    /\ kmain = NoBoot

\* The timer registers with frequency f, count c and enable bit e.
HwAt(f, c, e) == [cntfrq |-> f, cntpct |-> c, enable |-> e, imask |-> 0,
                  tval |-> 0, fire_in |-> 0]

TimerGlobals ==
    /\ sys_timer_config = ZeroConfig
    /\ sys_uptime = ZeroUptime
    /\ top = NoTimerOp
    /\ tghost = [advances |-> 0, accounted |-> 0, ticks |-> 0]
    /\ ucall = NoCall
    /\ conv = NoConv

\* The scheduler's static storage before any function has run.
SchedStatic ==
    /\ process_table = [i \in Slots |-> ZeroPcb]
    /\ current_process = NULL
    /\ ready_queue = [l \in Levels |-> NULL]
    /\ booted = FALSE
    /\ halted = FALSE
    /\ op = NoOp
    /\ returned = <<>>
    /\ yielded = {}
    /\ switch_log = <<>>
    /\ createdAfterSched = FALSE
    /\ pend = NoPend

\* The static storage before any function has run, the timer hardware idle.
Init ==
    /\ SchedStatic
    /\ TimerGlobals
    /\ hw = HwAt(0, 0, 0)
    /\ GicGlobals(GicReset(MaxTyper))

\* panic(): prints the reason and never returns.
panic == halted' = TRUE

\* system_init_scheduler(): marks every slot unused, numbers the slots and
\* makes slot 0 the running idle process.  The ready queues are not touched.
system_init_scheduler ==
    /\ ~booted
    /\ ~halted
    /\ process_table' =
         [i \in Slots |->
            IF i = 0
            THEN [process_table[i] EXCEPT !.state = "RUNNING", !.pid = 0,
                                          !.priority = PRIORITY_LEVELS - 1]
            ELSE [process_table[i] EXCEPT !.state = "UNUSED", !.pid = i]]
    /\ current_process' = 0
    /\ booted' = TRUE
    /\ op' = [kind |-> "system_init_scheduler", priority |-> NULL, ret |-> NULL]
    /\ UNCHANGED <<ready_queue, halted, returned, yielded, switch_log,
                   createdAfterSched, pend>>
    /\ UNCHANGED <<timerVars, gicVars>>

\* The free-slot loop testing "not running" instead of "unused": a slot that
\* already holds a ready process is handed out again.
FindFreeSlot_NotRunning ==
    LET free == {i \in 1 .. (MAX_PROCESSES - 1) : process_table[i].state # "RUNNING"}
    IN  IF free = {} THEN -1
        ELSE CHOOSE i \in free : \A j \in free : i <= j

\* The free-slot loop falling back to the last slot when no slot is unused.
FindFreeSlot_ReuseLast ==
    LET free == {i \in 1 .. (MAX_PROCESSES - 1) : process_table[i].state = "UNUSED"}
    IN  IF free = {} THEN MAX_PROCESSES - 1
        ELSE CHOOSE i \in free : \A j \in free : i <= j

\* The free-slot loop of create_process: the lowest i in [1, MAX_PROCESSES)
\* whose state is PROC_UNUSED, or -1.
FindFreeSlot ==
    LET free == {i \in 1 .. (MAX_PROCESSES - 1) : process_table[i].state = "UNUSED"}
    IN  IF free = {} THEN -1
        ELSE CHOOSE i \in free : \A j \in free : i <= j

\* create_process(name, entry_point, priority)
create_process(priority) ==
    /\ booted
    /\ ~halted
    /\ UNCHANGED <<timerVars, gicVars>>
    /\ IF priority >= PRIORITY_LEVELS
       THEN /\ op' = [kind |-> "create_process", priority |-> priority, ret |-> -1]
            /\ UNCHANGED <<process_table, current_process, ready_queue, booted,
                           halted, returned, yielded, switch_log, createdAfterSched, pend>>
       ELSE LET pid == FindFreeSlot IN
            IF pid = -1
            THEN /\ op' = [kind |-> "create_process", priority |-> priority, ret |-> -1]
                 /\ UNCHANGED <<process_table, current_process, ready_queue, booted,
                                halted, returned, yielded, switch_log,
                                createdAfterSched, pend>>
            ELSE \* p->state goes PROC_CREATED, then PROC_READY; the PCB is
                 \* linked in front of the queue's head.
                 /\ process_table' =
                      [process_table EXCEPT ![pid].priority = priority,
                                            ![pid].state = "READY",
                                            ![pid].ticks_remaining = TIME_SLICE_MS,
                                            ![pid].next = ready_queue[priority]]
                 /\ ready_queue' = [ready_queue EXCEPT ![priority] = pid]
                 /\ op' = [kind |-> "create_process", priority |-> priority, ret |-> pid]
                 /\ returned' = Append(returned, pid)
                 /\ createdAfterSched' = (createdAfterSched \/ switch_log # <<>>)
                 /\ UNCHANGED <<current_process, booted, halted, yielded, switch_log,
                                pend>>

\* The switch that marks the incoming process and leaves the outgoing one
\* RUNNING.
SwitchStates_KeepPrev(pt, prev, next) == [pt EXCEPT ![next].state = "RUNNING"]

\* prev->state = PROC_READY; ... next->state = PROC_RUNNING;
SwitchStates(pt, prev, next) ==
    [[pt EXCEPT ![prev].state = "READY"] EXCEPT ![next].state = "RUNNING"]

\* schedule(): pops the head of the first non-empty queue, falls back to the
\* idle process, and switches to the chosen process.  The re-queue branch of
\* the source has an empty body.
scheduleFrom(pt0) ==
    LET prev == current_process
        nonempty == {l \in Levels : ready_queue[l] # NULL}
        found == nonempty # {}
        prio == CHOOSE l \in nonempty : \A m \in nonempty : l <= m
        head == ready_queue[prio]
        rq1 == IF found
               THEN [ready_queue EXCEPT ![prio] = pt0[head].next]
               ELSE ready_queue
        pt1 == IF found
               THEN [pt0 EXCEPT ![head].next = NULL]
               ELSE pt0
    IN  IF /\ ~found
           /\ pt0[current_process].pid = 0
           /\ pt0[current_process].state = "RUNNING"
        THEN /\ process_table' = pt0
             /\ UNCHANGED <<current_process, ready_queue, switch_log>>
        ELSE LET next == IF found THEN head ELSE 0 IN
             /\ ready_queue' = rq1
             /\ IF next # prev
                THEN /\ process_table' = SwitchStates(pt1, prev, next)
                     /\ current_process' = next
                     /\ switch_log' = Append(switch_log, <<prev, next>>)
                ELSE /\ process_table' = pt1
                     /\ UNCHANGED <<current_process, switch_log>>

schedule == scheduleFrom(process_table)

\* A direct call of the exported schedule(), as the tick path makes it.
CallSchedule ==
    /\ booted
    /\ ~halted
    /\ schedule
    /\ op' = [kind |-> "schedule", priority |-> NULL, ret |-> NULL]
    /\ UNCHANGED <<booted, halted, returned, yielded, createdAfterSched, pend>>
    /\ UNCHANGED <<timerVars, gicVars>>

\* yield(): the running process gives up the CPU.
Yield ==
    /\ booted
    /\ ~halted
    /\ schedule
    /\ yielded' = yielded \cup {current_process}
    /\ op' = [kind |-> "yield", priority |-> NULL, ret |-> NULL]
    /\ UNCHANGED <<booted, halted, returned, createdAfterSched, pend>>
    /\ UNCHANGED timerVars

\* yield() called while no interrupt handler is suspended.
yield ==
    /\ Yield
    /\ UNCHANGED gicVars

Next ==
    \/ system_init_scheduler
    \/ \E priority \in PriorityInputs : create_process(priority)
    \/ CallSchedule
    \/ yield

Spec == Init /\ [][Next]_vars

(***************************************************************************)
(* Blocking and exiting.  The source has no function that sets             *)
(* PROC_BLOCKED or PROC_ZOMBIE; the step below is the specified one: the   *)
(* running process changes its own state and then calls schedule().        *)
(***************************************************************************)

\* The running process, not idle, marks itself BLOCKED or ZOMBIE.
set_own_state(st) ==
    /\ booted
    /\ ~halted
    /\ current_process # 0
    /\ process_table[current_process].state = "RUNNING"
    /\ process_table' = [process_table EXCEPT ![current_process].state = st]
    /\ op' = [kind |-> "set_own_state", priority |-> NULL, ret |-> NULL]
    /\ UNCHANGED <<current_process, ready_queue, booted, halted, returned,
                   yielded, switch_log, createdAfterSched, pend>>
    /\ UNCHANGED <<timerVars, gicVars>>

\* The number of ticks delivered in a run: more than one quantum.
MaxTicks == 12

\* The tick callback.  scheduler_tick is declared in the source but has no
\* body; this is the specified step: decrement the running process's
\* counter (an unsigned word), and when it reaches zero reset it to the
\* quantum and call schedule().
SchedulerTick ==
    /\ booted
    /\ ~halted
    /\ tghost.ticks < MaxTicks
    /\ LET t == u64(process_table[current_process].ticks_remaining - 1) IN
         IF t = 0
         THEN scheduleFrom([process_table EXCEPT
                              ![current_process].ticks_remaining = TIME_SLICE_MS])
         ELSE /\ process_table' = [process_table EXCEPT
                                     ![current_process].ticks_remaining = t]
              /\ UNCHANGED <<current_process, ready_queue, switch_log>>
    /\ op' = [kind |-> "scheduler_tick", priority |-> NULL, ret |-> NULL]
    /\ tghost' = [tghost EXCEPT !.ticks = @ + 1]
    /\ UNCHANGED <<booted, halted, returned, yielded, createdAfterSched, pend>>
    /\ UNCHANGED <<hw, sys_timer_config, sys_uptime, top, ucall, conv>>

\* The tick callback called outside the interrupt handler.
scheduler_tick ==
    /\ SchedulerTick
    /\ UNCHANGED gicVars

\* Priorities of the processes created while ticks are delivered.
TickPriorities == {0, 5}

NextTick ==
    \/ system_init_scheduler
    \/ \E priority \in TickPriorities : create_process(priority)
    \/ yield
    \/ scheduler_tick

SpecTick == Init /\ [][NextTick]_vars

\* The number of processes created in a run of all the scheduler's callers.
MaxTasks == 2

\* The scheduler under all of its callers: creation (at one priority),
\* direct calls of schedule(), yield() and one quantum of ticks.
NextSched ==
    \/ system_init_scheduler
    \/ Len(returned) < MaxTasks /\ create_process(5)
    \/ CallSchedule
    \/ yield
    \/ tghost.ticks < TIME_SLICE_MS /\ scheduler_tick

SpecSched == Init /\ [][NextSched]_vars

(***************************************************************************)
(* create_process() interrupted between its two stores to the ready queue. *)
(* The source masks interrupts nowhere: create_process() links the new PCB *)
(* to the head it has read (p->next = ready_queue[priority]) and then      *)
(* stores the head (ready_queue[priority] = p), and a schedule() called    *)
(* from the tick interrupt may run between the two.                        *)
(***************************************************************************)

\* create_process() up to and including p->next = ready_queue[priority],
\* for a call that finds a slot.
create_process_link(priority) ==
    /\ booted
    /\ ~halted
    /\ pend = NoPend
    /\ priority < PRIORITY_LEVELS
    /\ FindFreeSlot # -1
    /\ process_table' =
         [process_table EXCEPT ![FindFreeSlot].priority = priority,
                               ![FindFreeSlot].state = "READY",
                               ![FindFreeSlot].ticks_remaining = TIME_SLICE_MS,
                               ![FindFreeSlot].next = ready_queue[priority]]
    /\ pend' = [pid |-> FindFreeSlot, priority |-> priority,
                by |-> current_process]
    /\ op' = [kind |-> "create_process_link", priority |-> priority, ret |-> NULL]
    /\ UNCHANGED <<current_process, ready_queue, booted, halted, returned,
                   yielded, switch_log, createdAfterSched>>
    /\ UNCHANGED <<timerVars, gicVars>>

\* The rest of that call, made when the calling process runs again:
\* ready_queue[priority] = p; return pid.
create_process_store ==
    /\ booted
    /\ ~halted
    /\ pend # NoPend
    /\ current_process = pend.by
    /\ ready_queue' = [ready_queue EXCEPT ![pend.priority] = pend.pid]
    /\ op' = [kind |-> "create_process", priority |-> pend.priority,
              ret |-> pend.pid]
    /\ returned' = Append(returned, pend.pid)
    /\ createdAfterSched' = (createdAfterSched \/ switch_log # <<>>)
    /\ pend' = NoPend
    /\ UNCHANGED <<process_table, current_process, booted, halted, yielded,
                   switch_log>>
    /\ UNCHANGED <<timerVars, gicVars>>

\* A process other than the interrupted one is running.
OtherRuns == pend = NoPend \/ current_process # pend.by

\* The interrupted call is either completed by its caller or overtaken by
\* the tick's schedule(); the processes that run meanwhile create and yield.
NextPreempt ==
    \/ system_init_scheduler
    \/ \E priority \in TickPriorities : create_process_link(priority)
    \/ create_process_store
    \/ \E priority \in TickPriorities :
          pend # NoPend /\ OtherRuns /\ create_process(priority)
    \/ CallSchedule
    \/ OtherRuns /\ yield

SpecPreempt == Init /\ [][NextPreempt]_vars

NextBlock ==
    \/ system_init_scheduler
    \/ \E priority \in PriorityInputs : create_process(priority)
    \/ CallSchedule
    \/ yield
    \/ \E st \in {"BLOCKED", "ZOMBIE"} : set_own_state(st)

SpecBlock == Init /\ [][NextBlock]_vars

(***************************************************************************)
(* The timer driver, timer.c.                                              *)
(***************************************************************************)

\* ticks_to_ns(): the product is taken in the unsigned word.
ticks_to_ns(ticks) ==
    u64(ticks * NS_PER_SEC) \div sys_timer_config.frequency_hz

\* The quotient rounded up instead of down.
ns_to_ticks_RoundUp(ns) ==
    (u64(ns * sys_timer_config.frequency_hz) + NS_PER_SEC - 1) \div NS_PER_SEC

\* ns_to_ticks(): the product is taken in the unsigned word.
ns_to_ticks(ns) ==
    u64(ns * sys_timer_config.frequency_hz) \div NS_PER_SEC

\* uptime_ns = inc, in place of uptime_ns += inc.
Accumulate_Replace(old, inc) == inc

\* sys_uptime.uptime_ns += inc
Accumulate(old, inc) == u64(old + inc)

\* timer_update_uptime() with the counter read as c, applied to su.
timer_update_uptime(su, c) ==
    LET delta == u64(c - su.last_tick)
        ns == Accumulate(su.uptime_ns, ticks_to_ns(delta))
    IN  [su EXCEPT !.uptime_ns = ns,
                   !.uptime_sec = ns \div NS_PER_SEC,
                   !.last_tick = c]

\* The accumulator has room for the next interval: the run stays within the
\* lifetime the nanosecond word can count.
UptimeFits(su, c) ==
    su.uptime_ns + ticks_to_ns(u64(c - su.last_tick)) < WORD

\* CNTP_CTL.ISTATUS as a read returns it: the timer condition while the
\* timer is enabled, an UNKNOWN bit while it is disabled.
ReadIstatus ==
    IF hw.enable = 1
    THEN {IF hw.fire_in = 0 THEN 1 ELSE 0}
    ELSE {0, 1}

\* The timer's interrupt output: enabled, condition met, not masked.
IrqAsserted == hw.enable = 1 /\ hw.imask = 0 /\ hw.fire_in = 0

\* The frequency register's value taken as it is.
DetectFrequency_Raw(cntfrq) == cntfrq

\* freq = read_cntfrq_el0(); if (freq == 0) freq = ZYNQMP_REF_CLK_HZ;
DetectFrequency(cntfrq) ==
    IF cntfrq = 0 THEN ZYNQMP_REF_CLK_HZ ELSE cntfrq

\* The control word with the mask bit set and the enable bit left as found.
InitCtl_MaskOnly == [enable |-> hw.enable, imask |-> 1]

\* write_cntp_ctl_el0(0)
InitCtl == [enable |-> 0, imask |-> 0]

\* timer_core_init(): frequency, configuration, both timers disabled, boot
\* timestamp, then the timer's line enabled, prioritised and targeted at the
\* GIC.  timer_calibrate_delay() only reads the counter.  top.arg keeps the
\* value read_cntfrq_el0() returned.
TimerCoreInit ==
    /\ sys_timer_config.initialized = 0
    /\ LET freq == DetectFrequency(hw.cntfrq) IN
         /\ hw' = [hw EXCEPT !.cntfrq = freq, !.enable = InitCtl.enable,
                            !.imask = InitCtl.imask]
         /\ sys_timer_config' = [frequency_hz |-> freq,
                                 min_delta_ticks |-> MIN_DELTA_TICKS,
                                 irq_number |-> TIMER_IRQ,
                                 initialized |-> 1,
                                 use_virtual |-> 0]
    /\ sys_uptime' = [sys_uptime EXCEPT !.boot_timestamp = hw.cntpct,
                                        !.last_tick = hw.cntpct,
                                        !.uptime_ns = 0]
    /\ top' = [kind |-> "timer_core_init", arg |-> hw.cntfrq, acted |-> <<>>]
    /\ gic' = GicSetTarget(GicSetPriority(GicEnableIrq(gic, TIMER_IRQ),
                                          TIMER_IRQ, 0),
                           TIMER_IRQ, 1)
    /\ gop' = [kind |-> "gic_set_target", id |-> TIMER_IRQ, arg |-> 1,
               caller |-> "timer_core_init", acc |-> TargetAccesses(TIMER_IRQ),
               calls |-> gop.calls]
    /\ UNCHANGED <<tghost, ucall, conv>>
    /\ UNCHANGED schedVars

\* timer_core_init() called on its own.
timer_core_init ==
    /\ TimerCoreInit
    /\ UNCHANGED <<irq_log, kmain>>

\* The tick count is programmed as computed, without the lower limit.
ClampDelta_None(ticks) == ticks

\* if (ticks < min_delta_ticks) ticks = min_delta_ticks
ClampDelta(ticks) ==
    IF ticks < sys_timer_config.min_delta_ticks
    THEN sys_timer_config.min_delta_ticks
    ELSE ticks

\* timer_set_timeout(ns)
timer_set_timeout(ns) ==
    /\ sys_timer_config.initialized = 1
    /\ LET ticks == ClampDelta(ns_to_ticks(ns)) IN
         hw' = [hw EXCEPT !.tval = ticks, !.fire_in = ticks,
                          !.enable = 1, !.imask = 0]
    /\ top' = [kind |-> "timer_set_timeout", arg |-> ns, acted |-> <<>>]
    /\ UNCHANGED <<sys_timer_config, sys_uptime, tghost, ucall, conv>>
    /\ UNCHANGED <<schedVars, gicVars>>

\* The control word with only the mask bit changed.
CancelCtl_MaskOnly == [enable |-> hw.enable, imask |-> 1]

\* ctl = TIMER_DISABLE_BIT | TIMER_IMASK_BIT
CancelCtl == [enable |-> 0, imask |-> 1]

\* timer_cancel_timeout()
timer_cancel_timeout ==
    /\ sys_timer_config.initialized = 1
    /\ hw' = [hw EXCEPT !.enable = CancelCtl.enable, !.imask = CancelCtl.imask]
    /\ top' = [kind |-> "timer_cancel_timeout", arg |-> 0, acted |-> <<>>]
    /\ UNCHANGED <<sys_timer_config, sys_uptime, tghost, ucall, conv>>
    /\ UNCHANGED <<schedVars, gicVars>>

\* timer_isr(): the call of the scheduler hook is commented out in the source.
timer_isr ==
    /\ sys_timer_config.initialized = 1
    /\ \E ist \in ReadIstatus :
         IF ist = 1
         THEN /\ UptimeFits(sys_uptime, hw.cntpct)
              /\ hw' = [hw EXCEPT !.imask = 1]
              /\ sys_uptime' = timer_update_uptime(sys_uptime, hw.cntpct)
              /\ tghost' = [tghost EXCEPT !.accounted =
                               u64(@ + u64(hw.cntpct - sys_uptime.last_tick))]
              /\ top' = [kind |-> "timer_isr", arg |-> 1,
                         acted |-> <<"mask", "uptime">>]
         ELSE /\ top' = [kind |-> "timer_isr", arg |-> 0, acted |-> <<>>]
              /\ UNCHANGED <<hw, sys_uptime, tghost>>
    /\ UNCHANGED <<sys_timer_config, ucall, conv>>
    /\ UNCHANGED <<schedVars, gicVars>>

\* timer_get_uptime_ns(), run without interruption.
timer_get_uptime_ns ==
    /\ sys_timer_config.initialized = 1
    /\ ucall.pc = "none"
    /\ UptimeFits(sys_uptime, hw.cntpct)
    /\ sys_uptime' = timer_update_uptime(sys_uptime, hw.cntpct)
    /\ tghost' = [tghost EXCEPT !.accounted =
                     u64(@ + u64(hw.cntpct - sys_uptime.last_tick))]
    /\ top' = [kind |-> "timer_get_uptime_ns",
               arg |-> timer_update_uptime(sys_uptime, hw.cntpct).uptime_ns,
               acted |-> <<"uptime">>]
    /\ UNCHANGED <<hw, sys_timer_config, ucall, conv>>
    /\ UNCHANGED <<schedVars, gicVars>>

\* The system counter advances by d ticks; an enabled timer counts down.
CounterStep(d) ==
    hw' = [hw EXCEPT !.cntpct = u64(@ + d),
                     !.fire_in = IF hw.enable = 1 /\ @ > d THEN @ - d
                                 ELSE IF hw.enable = 1 THEN 0 ELSE @]

\* One of the counter advances of a bounded run.
CounterAdvance(d) ==
    /\ tghost.advances < MaxAdvances
    /\ CounterStep(d)
    /\ tghost' = [tghost EXCEPT !.advances = @ + 1]
    /\ UNCHANGED <<sys_timer_config, sys_uptime, top, ucall, conv>>
    /\ UNCHANGED <<schedVars, gicVars>>

\* The hardware a timer run starts from: any reported frequency, a counter
\* at zero or close to its wrap, the timer left enabled or not by firmware.
InitTimer ==
    /\ SchedStatic
    /\ TimerGlobals
    /\ hw \in {HwAt(f, c, e) : f \in FreqInputs, c \in BootCounts, e \in {0, 1}}
    /\ GicGlobals(GicReset(MaxTyper))

NextTimer ==
    \/ timer_core_init
    \/ \E ns \in NsInputs : timer_set_timeout(ns)
    \/ timer_cancel_timeout
    \/ timer_isr
    \/ timer_get_uptime_ns
    \/ \E d \in AdvanceInputs : CounterAdvance(d)

SpecTimer == InitTimer /\ [][NextTimer]_vars

(***************************************************************************)
(* The GIC driver, gic.c.                                                  *)
(***************************************************************************)

\* for (i = first; i < limit; i += step) MMIO_WRITE32(reg(i / per), w);
\* for (i = first; i < limit; i += step) MMIO_WRITE32(reg(i / per), w);
\* the stores go to distinct registers, so each register ends as its own
\* store leaves it.
StoreLoop(g, reg, first, limit, step, per, w) ==
    LET written ==
            {i \div per :
                i \in {j \in first .. (limit - 1) : (j - first) % step = 0}}
        stored(n) == IF n \in written THEN MmioWrite(g, reg, n, w) ELSE g
    IN  [g EXCEPT
           !.enable = [n \in EnableRegs |-> stored(n).enable[n]],
           !.group = [n \in EnableRegs |-> stored(n).group[n]],
           !.priority = [n \in ByteRegs |-> stored(n).priority[n]],
           !.target = [n \in ByteRegs |-> stored(n).target[n]]]

\* gic_dist_init()
GicDistInit(g) ==
    LET g0 == MmioWrite(g, "GICD_CTLR", 0, ZeroWord)
        num_irqs == IF LinesOf(g0) > MAX_IRQS THEN MAX_IRQS ELSE LinesOf(g0)
        g1 == StoreLoop(g0, "GICD_ICENABLER", IRQ_SPI_START, num_irqs, 32, 32,
                        Bytes4(255, 255, 255, 255))
        g2 == StoreLoop(g1, "GICD_IPRIORITYR", 0, num_irqs, 4, 4,
                        Bytes4(128, 128, 128, 128))
        g3 == StoreLoop(g2, "GICD_ITARGETSR", IRQ_SPI_START, num_irqs, 4, 4,
                        Bytes4(1, 1, 1, 1))
        g4 == StoreLoop(g3, "GICD_IGROUPR", 0, num_irqs, 32, 32, ZeroWord)
    IN  MmioWrite(g4, "GICD_CTLR", 0, Bytes4(0, 0, 0, 1))

\* gic_cpu_init()
GicCpuInit(g) ==
    LET g1 == MmioWrite(g, "GICC_PMR", 0, Bytes4(0, 0, 0, 240))
        g2 == MmioWrite(g1, "GICC_BPR", 0, ZeroWord)
    IN  MmioWrite(g2, "GICC_CTLR", 0, Bytes4(0, 0, 0, 1))

\* The number of driver calls in a run.
MaxGicCalls == 1

\* The lines the calls are made for: each byte position of a priority word,
\* bit 0 and bit 31 of an enable word, the lines an earlier stage enabled,
\* the timer's line, the first and the last shared line.
CallLines ==
    {0, 1, 2, 3, 5, TIMER_IRQ, 31, IRQ_SPI_START, 53, GicLines - 1}
TargetLines == {0, TIMER_IRQ, IRQ_SPI_START, IRQ_SPI_START + 1, 53, GicLines - 1}

\* The priorities written: both extremes, the default, and the two
\* alternating bit patterns.
PrioInputs == {0, 1, 85, 128, 170, 255}

\* The CPU masks written.
MaskInputs == {1, 2, 15}

GicCall(kind, id, arg, acc) ==
    [kind |-> kind, id |-> id, arg |-> arg, caller |-> "kernel",
     acc |-> acc, calls |-> gop.calls + 1]

\* gic_init()
gic_init ==
    /\ gop.calls < MaxGicCalls
    /\ gic' = GicCpuInit(GicDistInit(gic))
    /\ gop' = GicCall("gic_init", 0, 0, <<>>)
    /\ UNCHANGED <<irq_log, kmain>>
    /\ UNCHANGED <<schedVars, timerVars>>

\* gic_enable_irq(irq_id)
gic_enable_irq(irq_id) ==
    /\ gop.calls < MaxGicCalls
    /\ gic' = GicEnableIrq(gic, irq_id)
    /\ gop' = GicCall("gic_enable_irq", irq_id, 0, EnableAccesses(irq_id))
    /\ UNCHANGED <<irq_log, kmain>>
    /\ UNCHANGED <<schedVars, timerVars>>

\* gic_enable_interrupt(id)
gic_enable_interrupt(id) ==
    /\ gop.calls < MaxGicCalls
    /\ gic' = GicEnableInterrupt(gic, id)
    /\ gop' = GicCall("gic_enable_interrupt", id, 0, EnableInterruptAccesses(id))
    /\ UNCHANGED <<irq_log, kmain>>
    /\ UNCHANGED <<schedVars, timerVars>>

\* gic_disable_irq(irq_id)
gic_disable_irq(irq_id) ==
    /\ gop.calls < MaxGicCalls
    /\ gic' = GicDisableIrq(gic, irq_id)
    /\ gop' = GicCall("gic_disable_irq", irq_id, 0, DisableAccesses(irq_id))
    /\ UNCHANGED <<irq_log, kmain>>
    /\ UNCHANGED <<schedVars, timerVars>>

\* gic_set_priority(irq_id, priority)
gic_set_priority(irq_id, priority) ==
    /\ gop.calls < MaxGicCalls
    /\ gic' = GicSetPriority(gic, irq_id, priority)
    /\ gop' = GicCall("gic_set_priority", irq_id, priority,
                      PriorityAccesses(irq_id))
    /\ UNCHANGED <<irq_log, kmain>>
    /\ UNCHANGED <<schedVars, timerVars>>

\* gic_set_target(irq_id, cpu_mask)
gic_set_target(irq_id, cpu_mask) ==
    /\ gop.calls < MaxGicCalls
    /\ gic' = GicSetTarget(gic, irq_id, cpu_mask)
    /\ gop' = GicCall("gic_set_target", irq_id, cpu_mask,
                      TargetAccesses(irq_id))
    /\ UNCHANGED <<irq_log, kmain>>
    /\ UNCHANGED <<schedVars, timerVars>>

\* The controllers a run starts on: out of reset or as an earlier boot
\* stage left them, with each number of lines.
GicStarts ==
    {GicReset(t) : t \in TyperInputs} \cup {GicFirmware(t) : t \in TyperInputs}

InitGic ==
    /\ SchedStatic
    /\ TimerGlobals
    /\ hw = HwAt(0, 0, 0)
    /\ \E g \in GicStarts : GicGlobals(g)

NextGic ==
    \/ gic_init
    \/ \E irq_id \in CallLines : gic_enable_irq(irq_id)
    \/ \E id \in CallLines : gic_enable_interrupt(id)
    \/ \E irq_id \in CallLines : gic_disable_irq(irq_id)
    \/ \E irq_id \in CallLines, priority \in PrioInputs :
          gic_set_priority(irq_id, priority)
    \/ \E irq_id \in TargetLines, cpu_mask \in MaskInputs :
          gic_set_target(irq_id, cpu_mask)

SpecGic == InitGic /\ [][NextGic]_vars

(***************************************************************************)
(* The interrupt dispatch path                                             *)
(***************************************************************************)

\* The number of interrupts taken in a run.
MaxIrqs == 3

\* The values GICC_IAR is read as: the timer's line, the two lines the
\* handler names, another shared line, the spurious identifier, and
\* software interrupt 3 sent by CPU1, whose CPUID field (bits 12:10) is 1.
IarInputs == {TIMER_IRQ, 53, 120, 40, SPURIOUS_IRQ, 1024 + 3}

\* The acknowledge register's value taken whole.
AckId_Raw(iar) == iar

\* irq_id = iar & 0x3FF
AckId(iar) == iar % 1024

\* The handlers gic_handle_irq_c_handler() calls for irq_id: both calls in
\* its if/else chain are commented out.
Handlers(irq_id) ==
    IF irq_id = 120 THEN <<>>
    ELSE IF irq_id = 53 THEN <<>>
    ELSE <<>>

\* The end-of-interrupt store with the 10-bit identifier in place of the
\* value read.
EoiWrite_Id(iar) == <<[ev |-> "eoi", v |-> AckId(iar)]>>

\* MMIO_WRITE32(GICC_EOIR, iar)
EoiWrite(iar) == <<[ev |-> "eoi", v |-> iar]>>

\* What one run of the handler does after reading iar, in order.
HandlerEvents(iar) ==
    LET irq_id == AckId(iar) IN
    IF irq_id = SPURIOUS_IRQ
    THEN <<[ev |-> "ack", v |-> iar]>>
    ELSE <<[ev |-> "ack", v |-> iar]>>
           \o [k \in 1 .. Len(Handlers(irq_id)) |->
                 [ev |-> Handlers(irq_id)[k], v |-> irq_id]]
           \o EoiWrite(iar)

\* The register accesses of one run of the handler.
HandlerAccesses(iar) ==
    IF AckId(iar) = SPURIOUS_IRQ
    THEN << <<"R", "GICC_IAR", 0>> >>
    ELSE << <<"R", "GICC_IAR", 0>>, <<"W", "GICC_EOIR", 0>> >>

\* gic_handle_irq_c_handler(), entered from the vector table with GICC_IAR
\* reading iar.
HandleIrq(iar) ==
    /\ gop.calls < MaxIrqs
    /\ irq_log' = irq_log \o HandlerEvents(iar)
    /\ gop' = [kind |-> "gic_handle_irq_c_handler", id |-> AckId(iar),
               arg |-> iar, caller |-> "el1_irq_handler",
               acc |-> HandlerAccesses(iar), calls |-> gop.calls + 1]
    /\ UNCHANGED gic
    /\ UNCHANGED <<schedVars, timerVars>>

\* An interrupt taken while no boot step is in progress.
gic_handle_irq_c_handler(iar) ==
    /\ HandleIrq(iar)
    /\ UNCHANGED kmain

\* Interrupts are taken before and after the timer is initialised, the
\* timer running or stopped.
InitDispatch ==
    /\ SchedStatic
    /\ TimerGlobals
    /\ hw \in {HwAt(ZYNQMP_REF_CLK_HZ, 0, e) : e \in {0, 1}}
    /\ GicGlobals(GicReset(MaxTyper))

NextDispatch ==
    \/ timer_core_init
    \/ \E iar \in IarInputs : gic_handle_irq_c_handler(iar)

SpecDispatch == InitDispatch /\ [][NextDispatch]_vars

(***************************************************************************)
(* kernel_main(): the boot sequence                                        *)
(***************************************************************************)

\* kernel_main() has finished the step named last in kmain.done and is at
\* the step named by kmain.pc.
BootStep(name, next) ==
    kmain' = [kmain EXCEPT !.pc = next, !.done = Append(@, name)]

\* gic_init(), called from kernel_main().
km_gic_init ==
    /\ kmain.pc = "entry"
    /\ gic' = GicCpuInit(GicDistInit(gic))
    /\ gop' = [kind |-> "gic_init", id |-> 0, arg |-> 0,
               caller |-> "kernel_main", acc |-> <<>>, calls |-> gop.calls]
    /\ BootStep("gic_init", "timer_core_init")
    /\ UNCHANGED irq_log
    /\ UNCHANGED <<schedVars, timerVars>>

\* timer_core_init(), called from kernel_main().
km_timer_core_init ==
    /\ kmain.pc = "timer_core_init"
    /\ TimerCoreInit
    /\ BootStep("timer_core_init", "probe_hardware")
    /\ UNCHANGED irq_log

\* probe_hardware(): prints, and waits in mdelay(200).
km_probe_hardware ==
    /\ kmain.pc = "probe_hardware"
    /\ BootStep("mdelay", "calibrate_lasers")
    /\ UNCHANGED <<gic, gop, irq_log>>
    /\ UNCHANGED <<schedVars, timerVars>>

\* calibrate_lasers(): prints, and waits in mdelay(150) for each of the
\* four channel groups.
km_calibrate_lasers ==
    /\ kmain.pc = "calibrate_lasers"
    /\ kmain' = [kmain EXCEPT !.pc = "daifclr",
                              !.done = @ \o <<"mdelay", "mdelay", "mdelay", "mdelay">>]
    /\ UNCHANGED <<gic, gop, irq_log>>
    /\ UNCHANGED <<schedVars, timerVars>>

\* asm volatile("msr daifclr, #2")
km_unmask_irqs ==
    /\ kmain.pc = "daifclr"
    /\ kmain' = [kmain EXCEPT !.pc = "loop", !.irqs_unmasked = TRUE,
                              !.done = Append(@, "daifclr")]
    /\ UNCHANGED <<gic, gop, irq_log>>
    /\ UNCHANGED <<schedVars, timerVars>>

\* One pass of the main loop up to the wfi: timer_get_uptime_ms() is called
\* and the processor waits for an interrupt.
km_main_loop ==
    /\ kmain.pc = "loop"
    /\ BootStep("timer_get_uptime_ms", "wfi")
    /\ UNCHANGED <<gic, gop, irq_log>>
    /\ UNCHANGED <<schedVars, timerVars>>

\* An interrupt taken by kernel_main() once interrupts are unmasked; it
\* ends a wfi.
km_irq(iar) ==
    /\ kmain.irqs_unmasked
    /\ HandleIrq(iar)
    /\ kmain' = [kmain EXCEPT !.pc = IF @ = "wfi" THEN "loop" ELSE @]

\* kernel_main() is entered on any of the controllers and timers the
\* earlier boot stages may leave.
InitBoot ==
    /\ SchedStatic
    /\ TimerGlobals
    /\ hw \in {HwAt(f, c, e) : f \in FreqInputs, c \in BootCounts, e \in {0, 1}}
    /\ \E g \in GicStarts : GicGlobals(g)

NextBoot ==
    \/ km_gic_init
    \/ km_timer_core_init
    \/ km_probe_hardware
    \/ km_calibrate_lasers
    \/ km_unmask_irqs
    \/ km_main_loop
    \/ \E iar \in IarInputs : km_irq(iar)

SpecBoot == InitBoot /\ [][NextBoot]_vars

(***************************************************************************)
(* The timer interrupt with the tick callback in the handler's dispatch    *)
(* chain.  The source's handler calls nothing and timer_isr's hook is      *)
(* commented out; this is the specified wiring around the source's         *)
(* acknowledge, end-of-interrupt store and schedule().  switch_to() does   *)
(* not return in the outgoing process until that process is switched back  *)
(* in, so what follows the callback in the handler runs only then.         *)
(***************************************************************************)

\* A handler is suspended inside switch_to(): its acknowledge is logged and
\* its end-of-interrupt store is still to come.
HandlerSuspended ==
    /\ irq_log # <<>>
    /\ irq_log[Len(irq_log)].ev = "switch_to"

\* The process the suspended handler interrupted.
SuspendedIn == irq_log[Len(irq_log)].v

\* gic_handle_irq_c_handler() for the timer's line, taken by the running
\* process: acknowledge, the tick callback, and the store to GICC_EOIR once
\* the callback has returned.  While an interrupt is active the controller
\* delivers no other of the same priority.
timer_irq_tick ==
    /\ ~HandlerSuspended
    /\ SchedulerTick
    /\ irq_log' = irq_log
                    \o <<[ev |-> "ack", v |-> TIMER_IRQ],
                         [ev |-> "scheduler_tick", v |-> TIMER_IRQ]>>
                    \o (IF current_process' = current_process
                        THEN EoiWrite(TIMER_IRQ)
                        ELSE <<[ev |-> "switch_to", v |-> current_process]>>)
    /\ gop' = [kind |-> "gic_handle_irq_c_handler", id |-> TIMER_IRQ,
               arg |-> TIMER_IRQ, caller |-> "el1_irq_handler",
               acc |-> IF current_process' = current_process
                       THEN HandlerAccesses(TIMER_IRQ)
                       ELSE << <<"R", "GICC_IAR", 0>> >>,
               calls |-> gop.calls + 1]
    /\ UNCHANGED <<gic, kmain>>

\* yield() in task context; when it switches back to the process a handler
\* is suspended in, the handler goes on to its end-of-interrupt store.
yield_in_task ==
    /\ Yield
    /\ irq_log' = IF HandlerSuspended /\ current_process' = SuspendedIn
                  THEN irq_log \o EoiWrite(TIMER_IRQ)
                  ELSE irq_log
    /\ UNCHANGED <<gic, gop, kmain>>

NextTickIrq ==
    \/ system_init_scheduler
    \/ Len(returned) < MaxTasks /\ create_process(5)
    \/ yield_in_task
    \/ timer_irq_tick

SpecTickIrq == Init /\ [][NextTickIrq]_vars

(***************************************************************************)
(* The conversions on their own: after timer_core_init has fixed the       *)
(* frequency, each is applied to every value of the word, and its result   *)
(* is converted back.                                                      *)
(***************************************************************************)

ConvInputs == 0 .. WORD - 1

\* ticks_to_ns(v), then ns_to_ticks of the result.
convert_ticks(v) ==
    /\ sys_timer_config.initialized = 1
    /\ conv' = [kind |-> "ticks", v |-> v, out |-> ticks_to_ns(v),
                back |-> ns_to_ticks(ticks_to_ns(v))]
    /\ UNCHANGED <<hw, sys_timer_config, sys_uptime, top, tghost, ucall>>
    /\ UNCHANGED <<schedVars, gicVars>>

\* ns_to_ticks(v), then ticks_to_ns of the result.
convert_ns(v) ==
    /\ sys_timer_config.initialized = 1
    /\ conv' = [kind |-> "ns", v |-> v, out |-> ns_to_ticks(v),
                back |-> ticks_to_ns(ns_to_ticks(v))]
    /\ UNCHANGED <<hw, sys_timer_config, sys_uptime, top, tghost, ucall>>
    /\ UNCHANGED <<schedVars, gicVars>>

NextConv ==
    \/ timer_core_init
    \/ \E v \in ConvInputs : convert_ticks(v)
    \/ \E v \in ConvInputs : convert_ns(v)

SpecConv == InitTimer /\ [][NextConv]_vars

(***************************************************************************)
(* timer_get_uptime_ns() in task context, one access of the volatile       *)
(* sys_uptime or of the counter at a time.  The source takes no lock and   *)
(* does not mask interrupts (timer.c:204), so the timer's handler can run  *)
(* between any two of these steps.                                         *)
(***************************************************************************)

\* uint64_t current_ticks = read_cntpct_el0();
get_uptime_read_counter ==
    /\ sys_timer_config.initialized = 1
    /\ ucall.pc = "none"
    /\ ucall' = [NoCall EXCEPT !.pc = "read_last", !.current_ticks = hw.cntpct]
    /\ UNCHANGED <<hw, sys_timer_config, sys_uptime, top, tghost, conv>>
    /\ UNCHANGED <<schedVars, gicVars>>

\* uint64_t delta = current_ticks - sys_uptime.last_tick;
get_uptime_read_last ==
    /\ ucall.pc = "read_last"
    /\ ucall' = [ucall EXCEPT !.pc = "load_ns",
                              !.delta = u64(ucall.current_ticks - sys_uptime.last_tick)]
    /\ UNCHANGED <<hw, sys_timer_config, sys_uptime, top, tghost, conv>>
    /\ UNCHANGED <<schedVars, gicVars>>

\* sys_uptime.uptime_ns += ticks_to_ns(delta);  the load and the addition
get_uptime_load_ns ==
    /\ ucall.pc = "load_ns"
    /\ sys_uptime.uptime_ns + ticks_to_ns(ucall.delta) < WORD
    /\ ucall' = [ucall EXCEPT !.pc = "store_ns",
                              !.sum = Accumulate(sys_uptime.uptime_ns,
                                                 ticks_to_ns(ucall.delta)),
                              !.fed = u64(tghost.accounted + ucall.delta)]
    /\ UNCHANGED <<hw, sys_timer_config, sys_uptime, top, tghost, conv>>
    /\ UNCHANGED <<schedVars, gicVars>>

\* sys_uptime.uptime_ns += ticks_to_ns(delta);  the store, and uptime_sec
get_uptime_store_ns ==
    /\ ucall.pc = "store_ns"
    /\ sys_uptime' = [sys_uptime EXCEPT !.uptime_ns = ucall.sum,
                                        !.uptime_sec = ucall.sum \div NS_PER_SEC]
    /\ tghost' = [tghost EXCEPT !.accounted = ucall.fed]
    /\ ucall' = [ucall EXCEPT !.pc = "store_last"]
    /\ UNCHANGED <<hw, sys_timer_config, top, conv>>
    /\ UNCHANGED <<schedVars, gicVars>>

\* sys_uptime.last_tick = current_ticks;  return sys_uptime.uptime_ns;
get_uptime_store_last ==
    /\ ucall.pc = "store_last"
    /\ sys_uptime' = [sys_uptime EXCEPT !.last_tick = ucall.current_ticks]
    /\ top' = [kind |-> "timer_get_uptime_ns", arg |-> sys_uptime.uptime_ns,
               acted |-> <<"uptime">>]
    /\ ucall' = NoCall
    /\ UNCHANGED <<hw, sys_timer_config, tghost, conv>>
    /\ UNCHANGED <<schedVars, gicVars>>

\* The timer's line is asserted and its handler runs.
deliver_timer_irq ==
    /\ IrqAsserted
    /\ timer_isr

NextRace ==
    \/ timer_core_init
    \/ \E ns \in NsInputs : timer_set_timeout(ns)
    \/ deliver_timer_irq
    \/ \E d \in AdvanceInputs : CounterAdvance(d)
    \/ get_uptime_read_counter
    \/ get_uptime_read_last
    \/ get_uptime_load_ns
    \/ get_uptime_store_ns
    \/ get_uptime_store_last

SpecRace == InitTimer /\ [][NextRace]_vars

(***************************************************************************)
(* The interrupt-driven timer: after initialisation a first deadline is    *)
(* armed, and from then on only the hardware and the interrupt handler     *)
(* run.  No function of the source calls timer_set_timeout.                *)
(***************************************************************************)

\* The first deadline, armed right after timer_core_init.
arm_first_deadline ==
    /\ top.kind = "timer_core_init"
    /\ \E ns \in NsInputs : timer_set_timeout(ns)

\* The free-running system counter, from the first deadline on.
CounterRuns ==
    /\ top.kind \in {"timer_set_timeout", "timer_isr"}
    /\ \E d \in AdvanceInputs : CounterStep(d)
    /\ UNCHANGED <<sys_timer_config, sys_uptime, top, tghost, ucall, conv>>
    /\ UNCHANGED <<schedVars, gicVars>>

NextIrq ==
    \/ timer_core_init
    \/ arm_first_deadline
    \/ deliver_timer_irq
    \/ CounterRuns

SpecIrq ==
    /\ InitTimer
    /\ [][NextIrq]_vars
    /\ WF_vars(timer_core_init)
    /\ WF_vars(arm_first_deadline)
    /\ WF_vars(deliver_timer_irq)
    /\ WF_vars(CounterRuns)

\* The timer driven by its caller and its interrupt: initialisation, arming
\* and cancelling deadlines, the running counter, and the interrupt
\* delivered when the timer asserts it.
NextArm ==
    \/ timer_core_init
    \/ \E ns \in NsInputs : timer_set_timeout(ns)
    \/ timer_cancel_timeout
    \/ deliver_timer_irq
    \/ \E d \in AdvanceInputs : CounterAdvance(d)

SpecArm == InitTimer /\ [][NextArm]_vars

(***************************************************************************)
(* Reading the queues                                                      *)
(***************************************************************************)

\* The PCBs reached from pointer p through the next links.
RECURSIVE Walk(_, _, _)
Walk(pt, p, fuel) ==
    IF p = NULL \/ fuel = 0 THEN <<>>
    ELSE <<p>> \o Walk(pt, pt[p].next, fuel - 1)

\* The ready queue of level l, head first, in a given table.
QueueOf(rq, pt, l) == Walk(pt, rq[l], MAX_PROCESSES)

\* The ready queue of level l, head first.
QueueSeq(l) == QueueOf(ready_queue, process_table, l)

InQueue(i, l) == \E k \in DOMAIN QueueSeq(l) : QueueSeq(l)[k] = i

AllQueuesEmpty == \A l \in Levels : ready_queue[l] = NULL

NoUnusedSlot == \A i \in 1 .. (MAX_PROCESSES - 1) : process_table[i].state # "UNUSED"

\* The processes create_process has set up.
Created == {returned[k] : k \in DOMAIN returned}

\* The process each switch_to call switched to.
RunOrder == [k \in DOMAIN switch_log |-> switch_log[k][2]]

ScheduleStep == CallSchedule \/ yield

(***************************************************************************)
(* Claims                                                                  *)
(***************************************************************************)

\* C1: every create_process call made with a valid priority while an unused
\* slot remains returns an identifier in [1, MAX_PROCESSES) that no earlier
\* call returned; 0 is never returned.
C1_DistinctIds ==
    /\ \A k \in DOMAIN returned :
         /\ returned[k] \in 1 .. (MAX_PROCESSES - 1)
         /\ returned[k] # 0
         /\ \A j \in DOMAIN returned : j # k => returned[j] # returned[k]
    /\ (/\ op.kind = "create_process"
        /\ op.priority < PRIORITY_LEVELS
        /\ op.ret = -1) => NoUnusedSlot

C1_Witness ==
    /\ Len(returned) >= 2
    /\ op.kind = "create_process"
    /\ op.ret = returned[Len(returned)]

\* C2: whenever schedule takes a process from the ready queues, no process
\* in state READY has a numerically lower priority than the one taken.
C2_HigherPriorityFirst ==
    [][(ScheduleStep /\ ~AllQueuesEmpty) =>
          \A i \in Slots :
             process_table[i].state = "READY" =>
                process_table[i].priority >= process_table[current_process'].priority]_vars

\* C3: N >= 2 processes created at one priority level before any scheduling
\* run in their creation order, and after all N have run the first runs again.
C3_RoundRobin ==
    (/\ ~createdAfterSched
     /\ Len(returned) >= 2
     /\ \A i, j \in Created : process_table[i].priority = process_table[j].priority)
    => \A k \in DOMAIN RunOrder :
          RunOrder[k] = returned[((k - 1) % Len(returned)) + 1]

\* C4: when schedule switches away from a process that is not idle and is
\* neither BLOCKED nor ZOMBIE, that process is READY afterwards and is the
\* last element of the ready queue of its priority.
C4_Requeued ==
    [][(/\ ScheduleStep
        /\ current_process' # current_process
        /\ current_process # 0
        /\ process_table[current_process].state \notin {"BLOCKED", "ZOMBIE"})
       => LET q == QueueOf(ready_queue', process_table',
                           process_table[current_process].priority)
          IN  /\ process_table'[current_process].state = "READY"
              /\ q # <<>>
              /\ q[Len(q)] = current_process]_vars

\* C5: a PCB is READY exactly when it is in a ready queue; it is in at most
\* one queue, once, and that queue is the one of its priority.
C5_QueueAgreesWithState ==
    \A i \in Slots :
       /\ process_table[i].state = "READY" <=> \E l \in Levels : InQueue(i, l)
       /\ \A l \in Levels :
            InQueue(i, l) =>
               /\ l = process_table[i].priority
               /\ Cardinality({k \in DOMAIN QueueSeq(l) : QueueSeq(l)[k] = i}) = 1

\* Three processes were created, two at priority 0 and one at priority 5,
\* before any scheduling.
E2E_Setup ==
    /\ ~createdAfterSched
    /\ Len(returned) = 3
    /\ Cardinality({i \in Created : process_table[i].priority = 0}) = 2
    /\ Cardinality({i \in Created : process_table[i].priority = 5}) = 1

\* C6: in the end-to-end scenario the first schedule runs a priority-0
\* process, the next switch runs the other priority-0 process, and the
\* priority-5 process runs only after both priority-0 processes have yielded.
C6_EndToEnd ==
    E2E_Setup =>
       LET Hi == {i \in Created : process_table[i].priority = 0}
           Lo == {i \in Created : process_table[i].priority = 5}
       IN  /\ Len(RunOrder) >= 1 => RunOrder[1] \in Hi
           /\ Len(RunOrder) >= 2 => RunOrder[2] \in Hi \ {RunOrder[1]}
           /\ (current_process \in Lo /\ process_table[current_process].state = "RUNNING")
                 => Hi \subseteq yielded

\* C7: create_process puts the new PCB at the tail of the queue of its
\* priority, so that every queue lists its processes in creation order.
C7_TailInsertion ==
    /\ (op.kind = "create_process" /\ op.ret # -1) =>
          LET q == QueueSeq(op.priority)
          IN  q # <<>> /\ q[Len(q)] = op.ret
    /\ \A l \in Levels :
          \A a, b \in DOMAIN QueueSeq(l) : a < b => QueueSeq(l)[a] < QueueSeq(l)[b]

\* C8: with no unused slot in [1, MAX_PROCESSES), create_process returns -1,
\* which is no valid identifier, does not halt the kernel, and leaves the
\* process table, the ready queues and the current process unchanged.
C8_TableFull ==
    [][((\E priority \in PriorityInputs : create_process(priority)) /\ NoUnusedSlot)
       => /\ op'.ret = -1
          /\ op'.ret \notin Slots
          /\ ~halted'
          /\ UNCHANGED <<process_table, ready_queue, current_process>>]_vars

C8_Witness ==
    /\ op.kind = "create_process"
    /\ op.priority < PRIORITY_LEVELS
    /\ op.ret = -1
    /\ NoUnusedSlot
    /\ Len(returned) = MAX_PROCESSES - 1

\* C9: create_process called with a priority outside [0, PRIORITY_LEVELS)
\* halts the system instead of returning.
C9_BadPriorityHalts ==
    (op.kind = "create_process" /\ op.priority >= PRIORITY_LEVELS) => halted

\* C10: the idle process is in no ready queue and is never READY, and after
\* a schedule that leaves it current every ready queue is empty.
C10_IdleNeverReady ==
    booted =>
       /\ \A l \in Levels : ~InQueue(0, l)
       /\ process_table[0].state # "READY"
       /\ (op.kind \in {"schedule", "yield"} /\ current_process = 0) => AllQueuesEmpty

\* C11: a process that marked itself BLOCKED or ZOMBIE keeps that state when
\* schedule switches away from it and is in no ready queue; schedule never
\* selects a ZOMBIE process.
C11_BlockedStays ==
    [][ScheduleStep =>
         /\ (/\ process_table[current_process].state \in {"BLOCKED", "ZOMBIE"}
             /\ current_process' # current_process)
            => /\ process_table'[current_process].state
                     = process_table[current_process].state
               /\ \A l \in Levels :
                     \A k \in DOMAIN QueueOf(ready_queue', process_table', l) :
                        QueueOf(ready_queue', process_table', l)[k] # current_process
         /\ process_table[current_process'].state # "ZOMBIE"]_vars

\* C12: the remaining-quantum counter of every process stays within one
\* quantum (it never passes below zero), and a tick calls schedule exactly
\* when the decremented counter is zero.
C12_QuantumBounded ==
    \A i \in Slots : process_table[i].ticks_remaining <= TIME_SLICE_MS

\* C13: timer_isr acts exactly when it reads ISTATUS set: it then masks the
\* interrupt keeping the enable bit, updates uptime and calls the scheduler's
\* tick callback, in this order; otherwise it changes nothing.
C13_IsrActs ==
    [][timer_isr =>
         IF top'.arg = 1
         THEN /\ hw'.imask = 1
              /\ hw'.enable = hw.enable
              /\ sys_uptime' = timer_update_uptime(sys_uptime, hw.cntpct)
              /\ top'.acted = <<"mask", "uptime", "tick">>
         ELSE /\ top'.acted = <<>>
              /\ UNCHANGED <<hw, sys_uptime, schedVars>>]_vars

\* C14: every timer interrupt handled with ISTATUS set is followed, sooner or
\* later, by the timer being enabled with its interrupt unmasked again.
C14_Rearmed ==
    (top.kind = "timer_isr" /\ top.arg = 1) ~> (hw.enable = 1 /\ hw.imask = 0)

\* C15: timer_set_timeout(ns) programs max(ns_to_ticks(ns), min_delta_ticks),
\* never fewer ticks than the minimum delta, and leaves the timer enabled
\* with its interrupt unmasked.
C15_ArmProgramsMax ==
    top.kind = "timer_set_timeout" =>
        LET t == ns_to_ticks(top.arg)
            m == sys_timer_config.min_delta_ticks
        IN  /\ hw.tval = IF t > m THEN t ELSE m
            /\ hw.tval >= MIN_DELTA_TICKS
            /\ hw.enable = 1
            /\ hw.imask = 0

\* A request below the minimum delta was programmed as the minimum delta.
C15_Witness ==
    /\ top.kind = "timer_set_timeout"
    /\ ns_to_ticks(top.arg) < MIN_DELTA_TICKS
    /\ hw.tval = MIN_DELTA_TICKS
    /\ hw.enable = 1

\* C16: timer_cancel_timeout leaves the timer disabled and masked from any
\* state, changes nothing when the timer is already disabled and masked, and
\* a disabled timer stays disabled, its interrupt not asserted, until the
\* next timer_set_timeout.
C16_CancelIdempotent ==
    [][/\ timer_cancel_timeout => (hw'.enable = 0 /\ hw'.imask = 1)
       /\ (timer_cancel_timeout /\ hw.enable = 0 /\ hw.imask = 1)
            => UNCHANGED <<hw, sys_timer_config, sys_uptime>>
       /\ (/\ sys_timer_config.initialized = 1
           /\ hw.enable = 0
           /\ ~(\E ns \in NsInputs : timer_set_timeout(ns)))
            => (hw'.enable = 0 /\ ~IrqAsserted')]_vars

\* A cancel of a timer whose deadline had passed: armed before, now disabled
\* and masked.
C16_Witness ==
    /\ top.kind = "timer_cancel_timeout"
    /\ hw.tval >= MIN_DELTA_TICKS
    /\ hw.fire_in = 0
    /\ hw.enable = 0
    /\ hw.imask = 1

\* C17: uptime_ns never decreases, whether the counter reading is above the
\* last snapshot or below it after a wrap of the counter.
C17_UptimeMonotonic ==
    [][sys_uptime'.uptime_ns >= sys_uptime.uptime_ns]_vars

\* An update whose counter reading had wrapped below the boot timestamp added
\* to the uptime.
C17_Witness ==
    /\ top.kind \in {"timer_get_uptime_ns", "timer_isr"}
    /\ top.acted # <<>>
    /\ sys_uptime.last_tick < sys_uptime.boot_timestamp
    /\ sys_uptime.uptime_ns > 0

\* C18: with the handler's update interleaved with a query in task context,
\* every interval of raw ticks is accumulated exactly once (between calls the
\* ticks fed to the accumulator are those from the boot timestamp to the
\* last snapshot) and last_tick never moves backwards.
C18_EachIntervalOnce ==
    [][/\ ucall'.pc = "none" =>
            tghost'.accounted
              = u64(sys_uptime'.last_tick - sys_uptime'.boot_timestamp)
       /\ sys_timer_config.initialized = 1 =>
            u64(sys_uptime'.last_tick - sys_uptime.boot_timestamp)
              >= u64(sys_uptime.last_tick - sys_uptime.boot_timestamp)]_vars

\* The products of a round trip both fit the word.
ConvFits ==
    LET f == sys_timer_config.frequency_hz IN
    \/ conv.kind = "ticks" /\ conv.v * NS_PER_SEC < WORD /\ conv.out * f < WORD
    \/ conv.kind = "ns" /\ conv.v * f < WORD /\ conv.out * NS_PER_SEC < WORD

C20_ExactQuotient ==
    LET f == sys_timer_config.frequency_hz IN
    /\ (conv.kind = "ticks" /\ (conv.v * NS_PER_SEC) \div f < WORD) =>
          conv.out = (conv.v * NS_PER_SEC) \div f
    /\ (conv.kind = "ns" /\ (conv.v * f) \div NS_PER_SEC < WORD) =>
          conv.out = (conv.v * f) \div NS_PER_SEC

(***************************************************************************)
(* The interrupt dispatch path: claims C21 to C23                          *)
(***************************************************************************)

\* The acknowledges of a real identifier and the end-of-interrupt stores,
\* in the order they were made.
AckEoiLog ==
    SelectSeq(irq_log,
              LAMBDA e : \/ e.ev = "eoi"
                         \/ e.ev = "ack" /\ e.v % 1024 # SPURIOUS_IRQ)

\* C21: every acknowledge of a real identifier is followed by exactly one
\* end-of-interrupt store, of the value acknowledged, made after the
\* handlers called for it; there is no store without its acknowledge and
\* none between a handler's events.
C21_EoiOncePerAck ==
    /\ Len(AckEoiLog) % 2 = 0
    /\ \A k \in 1 .. (Len(AckEoiLog) \div 2) :
          /\ AckEoiLog[2 * k - 1].ev = "ack"
          /\ AckEoiLog[2 * k].ev = "eoi"
          /\ AckEoiLog[2 * k].v = AckEoiLog[2 * k - 1].v
    /\ \A i \in 1 .. Len(irq_log) :
          irq_log[i].ev = "eoi" =>
             (i = Len(irq_log) \/ irq_log[i + 1].ev = "ack")

\* Software interrupt 3 from CPU1 was acknowledged (GICC_IAR = 0x403) and
\* ended with that value, after another interrupt had been ended.
C21_Witness ==
    /\ Len(irq_log) >= 4
    /\ irq_log[Len(irq_log) - 1] = [ev |-> "ack", v |-> 1024 + 3]
    /\ irq_log[Len(irq_log)] = [ev |-> "eoi", v |-> 1024 + 3]
    /\ irq_log[2].ev = "eoi"

\* C22: the identifier is the acknowledge register's low 10 bits; when it
\* is 1023 the handler only reads the register: no handler is called,
\* nothing is stored to GICC_EOIR, and the controller, the timer and the
\* scheduler are left as they were.
C22_SpuriousIgnored ==
    [][gop'.kind = "gic_handle_irq_c_handler" =>
          /\ gop'.id = gop'.arg % 1024
          /\ gop'.id = SPURIOUS_IRQ =>
                /\ irq_log' = Append(irq_log, [ev |-> "ack", v |-> gop'.arg])
                /\ gop'.acc = << <<"R", "GICC_IAR", 0>> >>
                /\ UNCHANGED <<gic, schedVars, timerVars>>]_vars

\* A spurious interrupt was taken after the timer had been initialised and
\* a real interrupt handled.
C22_Witness ==
    /\ gop.kind = "gic_handle_irq_c_handler"
    /\ gop.id = SPURIOUS_IRQ
    /\ sys_timer_config.initialized = 1
    /\ Len(irq_log) = 3
    /\ irq_log[2].ev = "eoi"
    /\ irq_log[3] = [ev |-> "ack", v |-> SPURIOUS_IRQ]

\* C23: when the identifier acknowledged is the timer's line, timer_isr is
\* called after the acknowledge and before the end-of-interrupt store.
C23_TimerDispatched ==
    \A i \in 1 .. Len(irq_log) :
       (irq_log[i].ev = "ack" /\ irq_log[i].v % 1024 = TIMER_IRQ) =>
          /\ i + 2 <= Len(irq_log)
          /\ irq_log[i + 1].ev = "timer_isr"
          /\ irq_log[i + 2].ev = "eoi"

(***************************************************************************)
(* Queue updates and the tick: claim C24                                   *)
(***************************************************************************)

\* The places of process i in the ready queues.
QueuePlaces(i) ==
    {<<l, k>> \in Levels \X (1 .. MAX_PROCESSES) :
        k <= Len(QueueSeq(l)) /\ QueueSeq(l)[k] = i}

\* The processes that have been switched to.
HasRun == {RunOrder[k] : k \in DOMAIN RunOrder}

\* The create_process call of process i is between its two stores and its
\* caller is the running process.
BeingLinked(i) == pend.pid = i /\ current_process = pend.by

\* C24: whatever the interleaving of create_process and yield with the
\* schedule() of the tick, no process runs while a queue is half updated:
\* every PCB that is READY and has not run yet is in the queue of its
\* priority unless its creator is running between the two stores; and once
\* no update is in progress the running process is in no queue and no
\* process is in the queues twice.
C24_NoHalfUpdate ==
    booted =>
        /\ \A i \in Slots \ (HasRun \cup {0}) :
              (process_table[i].state = "READY" /\ ~BeingLinked(i)) =>
                 InQueue(i, process_table[i].priority)
        /\ pend = NoPend =>
              /\ QueuePlaces(current_process) = {}
              /\ \A i \in Slots : Cardinality(QueuePlaces(i)) <= 1

(***************************************************************************)
(* The interrupt controller driver: claims C25 to C28                      *)
(***************************************************************************)

\* The lines controller g implements.
ImplementedLines(g) == 0 .. (LinesOf(g) - 1)

\* C25: after gic_init every implemented line, lines 0 to 31 included, is
\* disabled and has priority 0x80, every shared line targets CPU0, all lines
\* are in one group, the distributor and the CPU interface are enabled and
\* the priority mask is 0xF0.
C25_InitLeavesAllDisabled ==
    gop.kind = "gic_init" =>
        /\ \A id \in ImplementedLines(gic) :
              /\ LineEnabled(gic, id) = 0
              /\ LinePriority(gic, id) = 128
              /\ id >= IRQ_SPI_START => LineTarget(gic, id) = 1
              /\ LineGroup(gic, id) = LineGroup(gic, 0)
        /\ gic.dctlr = 1
        /\ gic.cctlr = 1
        /\ gic.pmr = 240

\* The enable state of every line but line id is the same in g and h, and
\* so is everything else the controller holds.
OnlyEnableOf(g, h, id) ==
    /\ \A other \in (0 .. (GicLines - 1)) \ {id} :
          LineEnabled(h, other) = LineEnabled(g, other)
    /\ [h EXCEPT !.enable = g.enable] = g

\* C26: gic_enable_irq (and gic_enable_interrupt) sets, gic_disable_irq
\* clears the enable bit of exactly the line it is called for, on every
\* implemented line; gic_disable_irq makes one access, a store to the
\* clear-enable register of the line.
C26_EnableDisableExact ==
    [][/\ (gop'.kind \in {"gic_enable_irq", "gic_enable_interrupt"}
             /\ gop'.id \in ImplementedLines(gic)) =>
             /\ LineEnabled(gic', gop'.id) = 1
             /\ OnlyEnableOf(gic, gic', gop'.id)
       /\ (gop'.kind = "gic_disable_irq" /\ gop'.id \in ImplementedLines(gic)) =>
             /\ LineEnabled(gic', gop'.id) = 0
             /\ OnlyEnableOf(gic, gic', gop'.id)
       /\ gop'.kind = "gic_disable_irq" =>
             gop'.acc = << <<"W", "GICD_ICENABLER", gop'.id \div 32>> >>]_vars

\* gic_disable_irq(5) ran on a controller that had lines 5 and 30 enabled:
\* line 5 is disabled and line 30, in the same register, is still enabled.
C26_Witness ==
    /\ gop.kind = "gic_disable_irq"
    /\ gop.id = 5
    /\ LineEnabled(gic, 5) = 0
    /\ LineEnabled(gic, TIMER_IRQ) = 1

\* C27: gic_set_priority(id, p) makes the priority of line id equal to p
\* and leaves the priority of every other line, the three others of the
\* same register included, and everything else the controller holds as it
\* was.
C27_SetPriorityExact ==
    [][(gop'.kind = "gic_set_priority" /\ gop'.id \in ImplementedLines(gic)) =>
          /\ LinePriority(gic', gop'.id) = gop'.arg
          /\ \A other \in (0 .. (GicLines - 1)) \ {gop'.id} :
                LinePriority(gic', other) = LinePriority(gic, other)
          /\ [gic' EXCEPT !.priority = gic.priority] = gic]_vars

\* gic_set_priority(31, 0xFF) ran on a controller whose line 30 had
\* priority 0x20: line 31 has the new priority and line 30, in the same
\* register, has kept its own.
C27_Witness ==
    /\ gop.kind = "gic_set_priority"
    /\ gop.id = 31
    /\ gop.arg = 255
    /\ LinePriority(gic, 31) = 255
    /\ LinePriority(gic, TIMER_IRQ) = 32

\* C28: gic_set_target(id, mask) changes the target field of no line but
\* id, and it is called for shared lines only (id >= 32).
C28_TargetSharedOnly ==
    [][gop'.kind = "gic_set_target" =>
          /\ gop'.id >= IRQ_SPI_START
          /\ \A other \in (0 .. (GicLines - 1)) \ {gop'.id} :
                LineTarget(gic', other) = LineTarget(gic, other)]_vars

(***************************************************************************)
(* The boot sequence: claim C29                                            *)
(***************************************************************************)

\* The position of the first step named name in kernel_main()'s steps, and
\* 0 when there is none.
FirstDone(name) ==
    LET at == {i \in 1 .. Len(kmain.done) : kmain.done[i] = name}
    IN  IF at = {} THEN 0 ELSE CHOOSE i \in at : \A j \in at : i <= j

\* The timer operations kernel_main() calls.
TimerOps == {"mdelay", "timer_get_uptime_ms"}

\* C29: the interrupt controller is initialised before the timer, the timer
\* and the scheduler with its idle task before any other task is created,
\* all of them before interrupts are unmasked, and no timer operation runs
\* before timer_core_init.
C29_BootOrder ==
    /\ FirstDone("timer_core_init") > 0 =>
          /\ FirstDone("gic_init") > 0
          /\ FirstDone("gic_init") < FirstDone("timer_core_init")
    /\ Created # {} =>
          /\ FirstDone("timer_core_init") > 0
          /\ booted
    /\ kmain.irqs_unmasked =>
          /\ FirstDone("gic_init") > 0
          /\ FirstDone("timer_core_init") > 0
          /\ booted
          /\ current_process = 0
          /\ process_table[0].state = "RUNNING"
    /\ \A i \in 1 .. Len(kmain.done) :
          kmain.done[i] \in TimerOps =>
             /\ FirstDone("timer_core_init") > 0
             /\ FirstDone("timer_core_init") < i

(***************************************************************************)
(* Timer initialisation: claim C30                                         *)
(***************************************************************************)

\* C30: timer_core_init records the frequency the hardware reports when it
\* is nonzero and ZYNQMP_REF_CLK_HZ, written back to CNTFRQ_EL0, when it is
\* zero; no step leaves an initialised timer with a recorded frequency of
\* zero, the value the conversions divide by.
C30_FrequencyNonzero ==
    [][/\ sys_timer_config'.initialized = 1 =>
             sys_timer_config'.frequency_hz # 0
       /\ timer_core_init =>
             /\ sys_timer_config'.frequency_hz =
                   (IF hw.cntfrq # 0 THEN hw.cntfrq ELSE ZYNQMP_REF_CLK_HZ)
             /\ hw'.cntfrq = sys_timer_config'.frequency_hz]_vars

\* timer_core_init ran on hardware that reported frequency zero: the default
\* is recorded and is in the frequency register.
C30_Witness ==
    /\ top.kind = "timer_core_init"
    /\ top.arg = 0
    /\ sys_timer_config.initialized = 1
    /\ sys_timer_config.frequency_hz = ZYNQMP_REF_CLK_HZ
    /\ hw.cntfrq = ZYNQMP_REF_CLK_HZ

(***************************************************************************)
(* The timer between initialisation and the first deadline: claim C31      *)
(***************************************************************************)

RunningSet == {i \in Slots : process_table[i].state = "RUNNING"}

\* C32: once system_init_scheduler has run, after any calls of
\* create_process, schedule, yield and the tick callback exactly one PCB is
\* RUNNING and it is the one current_process points to; every call of
\* switch_to had two different PCBs, and the second argument of the last
\* call is the current process.
C32_OneRunning ==
    booted =>
        /\ current_process \in Slots
        /\ RunningSet = {current_process}
        /\ \A k \in DOMAIN switch_log : switch_log[k][1] # switch_log[k][2]
        /\ switch_log # <<>> => switch_log[Len(switch_log)][2] = current_process
        /\ \A k \in 1 .. (Len(switch_log) - 1) :
              switch_log[k + 1][1] = switch_log[k][2]

\* Two switches have taken place, the second one on a quantum's last tick,
\* and a created process is running while another one is READY.
C32_Witness ==
    /\ booted
    /\ Len(switch_log) >= 2
    /\ op.kind = "scheduler_tick"
    /\ current_process # 0
    /\ switch_log[Len(switch_log)][2] = current_process
    /\ \E i \in Slots : i # current_process /\ i # 0 /\ process_table[i].state = "READY"

(***************************************************************************)
(* The life of a PCB: claim C33                                            *)
(***************************************************************************)

\* C33: a PCB becomes RUNNING only from READY (the idle PCB excepted),
\* create_process hands out only a slot that is UNUSED and that it has not
\* handed out before, no slot goes back to UNUSED, and a ZOMBIE PCB never
\* changes its state.
C33_Lifecycle ==
    [][/\ \A i \in Slots :
             process_table'[i].state # process_table[i].state =>
                /\ process_table'[i].state = "RUNNING" =>
                      (i = 0 \/ process_table[i].state = "READY")
                /\ process_table'[i].state # "UNUSED"
                /\ process_table[i].state # "ZOMBIE"
       /\ returned' # returned =>
             /\ process_table[op'.ret].state = "UNUSED"
             /\ op'.ret \notin Created]_vars

(***************************************************************************)
(* The end-of-interrupt store across a context switch: claim C34           *)
(***************************************************************************)

\* C34: when the tick callback called from the timer interrupt's handler
\* has switched to another process, the handler's end-of-interrupt store
\* for the acknowledged interrupt is still made: the process the handler
\* is suspended in is the idle process or is in a ready queue, so that a
\* schedule() switches back to it, and the timer's interrupt is not left
\* active for good.
C34_EoiAfterSwitch ==
    HandlerSuspended =>
        \/ SuspendedIn = 0
        \/ \E l \in Levels : InQueue(SuspendedIn, l)

====
